---- MODULE Spec2Model ----
(***************************************************************************)
(* Model of src/optimized_csv.py: the CSVOptimizer ingestion pipeline      *)
(* (schema detection, canonicalisation, deduplicating validation, artifact *)
(* writing, report) and the script that drives it.                         *)
(*                                                                         *)
(* Python strings are sequences of one-character strings, so that strip(), *)
(* lower(), substring search and json.dumps are computed, not assumed.     *)
(* Python values are tagged records [t, v]; a dict is the insertion-       *)
(* ordered sequence of its [k, v] entries.                                 *)
(***************************************************************************)
EXTENDS Integers, Sequences, FiniteSets, TLC

\* ------------------------------------------------------------------ bounds
MaxRows == 3          \* data rows of the CSV read by the script
MaxSchemaRows == 1    \* data rows under the headers that only exercise schema detection
MaxApiRows == 2       \* data rows of the CSV when the methods are called in any order
MaxRuns == 2          \* invocations of validate_entries on one optimizer

\* ------------------------------------------------------- Python str model
Whitespace == {" ", "\t", "\n", "\r"}

UpperChars == <<"A","B","C","D","E","F","G","H","I","J","K","L","M",
                "N","O","P","Q","R","S","T","U","V","W","X","Y","Z">>
LowerChars == <<"a","b","c","d","e","f","g","h","i","j","k","l","m",
                "n","o","p","q","r","s","t","u","v","w","x","y","z">>

LowerChar(c) ==
    IF \E i \in 1..Len(UpperChars) : UpperChars[i] = c
    THEN LowerChars[CHOOSE i \in 1..Len(UpperChars) : UpperChars[i] = c]
    ELSE c

\* str.lower()
Lower(s) == [i \in 1..Len(s) |-> LowerChar(s[i])]

\* str.strip(): drops leading and trailing whitespace
Strip(s) ==
    LET keep == {i \in 1..Len(s) : s[i] \notin Whitespace}
    IN  IF keep = {} THEN <<>>
        ELSE LET lo == CHOOSE i \in keep : \A j \in keep : i <= j
                 hi == CHOOSE i \in keep : \A j \in keep : i >= j
             IN  SubSeq(s, lo, hi)

\* sub in s
Contains(s, sub) ==
    \E i \in 1..(Len(s) - Len(sub) + 1) : SubSeq(s, i, i + Len(sub) - 1) = sub

\* ----------------------------------------------------- Python value model
PyStr(s)   == [t |-> "str",  v |-> s]
PyNone     == [t |-> "None", v |-> <<>>]
PyInt(n)   == [t |-> "int",  v |-> n]
PyList(xs) == [t |-> "list", v |-> xs]
PyDict(es) == [t |-> "dict", v |-> es]

\* equality of dict keys (str, None or int)
KeyEq(a, b) == a.t = b.t /\ a.v = b.v

\* key in d
HasKey(d, k) == \E i \in 1..Len(d) : KeyEq(d[i].k, k)

\* d[k] for a key that is present
Item(d, k) == d[CHOOSE i \in 1..Len(d) : KeyEq(d[i].k, k)].v

\* d.get(k, default)
Get(d, k, default) == IF HasKey(d, k) THEN Item(d, k) ELSE default

\* d[k] = v : replaces the value of an existing key in place, else appends
DictSet(d, k, val) ==
    IF HasKey(d, k)
    THEN [i \in 1..Len(d) |-> IF KeyEq(d[i].k, k) THEN [k |-> k, v |-> val] ELSE d[i]]
    ELSE Append(d, [k |-> k, v |-> val])

\* list(d.keys())
Keys(d) == [i \in 1..Len(d) |-> d[i].k]

\* ------------------------------------------------------------ exceptions
NoExc == [type |-> "", available |-> <<>>]
Raised(type) == [type |-> type, available |-> <<>>]

\* ---------------------------------------------------------------- _load_csv
RECURSIVE ZipDict(_, _, _, _)
\* dict(zip(fieldnames, row))
ZipDict(fieldnames, row, i, d) ==
    IF i > Len(fieldnames) \/ i > Len(row) THEN d
    ELSE ZipDict(fieldnames, row, i + 1, DictSet(d, PyStr(fieldnames[i]), PyStr(row[i])))

RECURSIVE RestVal(_, _, _)
\* for key in fieldnames[lr:]: d[key] = restval   (restval is None)
RestVal(fieldnames, i, d) ==
    IF i > Len(fieldnames) THEN d
    ELSE RestVal(fieldnames, i + 1, DictSet(d, PyStr(fieldnames[i]), PyNone))

\* csv.DictReader.__next__ for one non-blank line: short rows are padded with
\* None, the surplus cells of a long row are stored as a list under the key None
DictRow(fieldnames, row) ==
    LET d  == ZipDict(fieldnames, row, 1, <<>>)
        lf == Len(fieldnames)
        lr == Len(row)
    IN  IF lf < lr
        THEN DictSet(d, PyNone, PyList([i \in 1..(lr - lf) |-> PyStr(row[lf + i])]))
        ELSE IF lf > lr THEN RestVal(fieldnames, lr + 1, d)
        ELSE d

\* CSVOptimizer._load_csv
load_csv(file) ==
    IF ~file.exists THEN [exc |-> Raised("FileNotFoundError"), data |-> <<>>]
    ELSE LET data == [i \in 1..Len(file.lines) |-> DictRow(file.header, file.lines[i])]
         IN  IF data = <<>> THEN [exc |-> Raised("ValueError"), data |-> <<>>]
             ELSE [exc |-> NoExc, data |-> data]

\* ------------------------------------------------------- _identify_columns
s_truth == <<"t","r","u","t","h">>
s_lie   == <<"l","i","e">>

RECURSIVE IdentifyLoop_FirstWins(_, _, _, _)
\* fault variant: a lie field, once found, is kept
IdentifyLoop_FirstWins(cols, i, truth_cols, lie_col) ==
    IF i > Len(cols) THEN [exc |-> NoExc, truth_cols |-> truth_cols, lie_col |-> lie_col]
    ELSE LET col == cols[i] IN
         IF col.t # "str"
         THEN [exc |-> Raised("AttributeError"), truth_cols |-> truth_cols, lie_col |-> lie_col]
         ELSE LET lower_col == Lower(Strip(col.v)) IN
              IF Contains(lower_col, s_truth)
              THEN IdentifyLoop_FirstWins(cols, i + 1, Append(truth_cols, col), lie_col)
              ELSE IF Contains(lower_col, s_lie) /\ lie_col.t = "None"
              THEN IdentifyLoop_FirstWins(cols, i + 1, truth_cols, col)
              ELSE IdentifyLoop_FirstWins(cols, i + 1, truth_cols, lie_col)

RECURSIVE IdentifyLoop(_, _, _, _)
\* the for loop of lines 41-46 over first_row.keys()
IdentifyLoop(cols, i, truth_cols, lie_col) ==
    IF i > Len(cols) THEN [exc |-> NoExc, truth_cols |-> truth_cols, lie_col |-> lie_col]
    ELSE LET col == cols[i] IN
         IF col.t # "str"
         THEN [exc |-> Raised("AttributeError"), truth_cols |-> truth_cols, lie_col |-> lie_col]
         ELSE LET lower_col == Lower(Strip(col.v)) IN
              IF Contains(lower_col, s_truth)
              THEN IdentifyLoop(cols, i + 1, Append(truth_cols, col), lie_col)
              ELSE IF Contains(lower_col, s_lie)
              THEN IdentifyLoop(cols, i + 1, truth_cols, col)
              ELSE IdentifyLoop(cols, i + 1, truth_cols, lie_col)

\* CSVOptimizer._identify_columns
identify_columns(data) ==
    LET first_row == data[1]
        r == IdentifyLoop(Keys(first_row), 1, <<>>, PyNone)
    IN  IF r.exc # NoExc THEN r
        ELSE IF r.truth_cols = <<>> \/ r.lie_col = PyNone
        THEN [r EXCEPT !.exc = [type |-> "KeyError", available |-> Keys(first_row)]]
        ELSE r

\* ------------------------------------------------- _create_statements_list
RECURSIVE StripAll(_, _, _, _)
\* [row.get(col, '').strip() for col in cols]; a value that is not a str has
\* no strip() and raises AttributeError
StripAll(row, cols, i, acc) ==
    IF i > Len(cols) THEN [raised |-> FALSE, statements |-> acc]
    ELSE LET x == Get(row, cols[i], PyStr(<<>>)) IN
         IF x.t # "str" THEN [raised |-> TRUE, statements |-> <<>>]
         ELSE StripAll(row, cols, i + 1, Append(acc, PyStr(Strip(x.v))))

\* CSVOptimizer._create_statements_list
create_statements_list(row, truth_cols, lie_col) ==
    StripAll(row, Append(truth_cols, lie_col), 1, <<>>)

\* ------------------------------------------------------------- fingerprint
\* json.dumps of one str with ensure_ascii=False
JsonString(s) ==
    LET Esc(c) == IF c = "\"" THEN <<"\\", "\"">>
                  ELSE IF c = "\\" THEN <<"\\", "\\">>
                  ELSE IF c = "\n" THEN <<"\\", "n">>
                  ELSE IF c = "\r" THEN <<"\\", "r">>
                  ELSE IF c = "\t" THEN <<"\\", "t">>
                  ELSE <<c>>
        F[i \in 0..Len(s)] == IF i = 0 THEN <<>> ELSE F[i - 1] \o Esc(s[i])
    IN  <<"\"">> \o F[Len(s)] \o <<"\"">>

\* json.dumps(statements, ensure_ascii=False): '["a", "b"]'
JsonDumpsList(statements) ==
    LET F[i \in 0..Len(statements)] ==
            IF i = 0 THEN <<>>
            ELSE F[i - 1] \o (IF i = 1 THEN <<>> ELSE <<",", " ">>)
                          \o JsonString(statements[i].v)
    IN  <<"[">> \o F[Len(statements)] \o <<"]">>

\* hashlib.sha256(text.encode('utf-8')).hexdigest(); the digest is modelled as
\* collision free: the tagged text it was computed from, so two statement
\* vectors share a hash exactly when json.dumps gives them the same text
Sha256Hex(text) == <<"sha256">> \o text

\* -------------------------------------------------------- validate_entries
K_id               == PyStr(<<"i","d">>)
K_statements       == PyStr(<<"s","t","a","t","e","m","e","n","t","s">>)
K_lie_position     == PyStr(<<"l","i","e","_","p","o","s","i","t","i","o","n">>)
K_entry_hash       == PyStr(<<"e","n","t","r","y","_","h","a","s","h">>)
K_original_columns == PyStr(<<"o","r","i","g","i","n","a","l","_","c","o","l","u","m","n","s">>)

\* fault variant: ids counted from 0
NewEntry_ZeroBased(valid_data, statements, statement_hash, row) ==
    << [k |-> K_id,               v |-> PyInt(Len(valid_data))],
       [k |-> K_statements,       v |-> PyList(statements)],
       [k |-> K_lie_position,     v |-> PyInt(Len(statements) - 1)],
       [k |-> K_entry_hash,       v |-> PyStr(statement_hash)],
       [k |-> K_original_columns, v |-> PyDict(row)] >>

\* the dict appended at lines 77-83
NewEntry(valid_data, statements, statement_hash, row) ==
    << [k |-> K_id,               v |-> PyInt(Len(valid_data) + 1)],
       [k |-> K_statements,       v |-> PyList(statements)],
       [k |-> K_lie_position,     v |-> PyInt(Len(statements) - 1)],
       [k |-> K_entry_hash,       v |-> PyStr(statement_hash)],
       [k |-> K_original_columns, v |-> PyDict(row)] >>

\* fault variant: a duplicate is dropped without being counted
OnDuplicate_Uncounted(acc) == acc

\* lines 71-73: the hash was seen, count a duplicate and continue
OnDuplicate(acc) == [acc EXCEPT !.duplicates = @ + 1]

\* lines 75-83: remember the hash and append the record
OnFirst(acc, statements, statement_hash, row) ==
    [acc EXCEPT !.seen_hashes = @ \cup {statement_hash},
                !.valid_data  = Append(@, NewEntry(@, statements, statement_hash, row))]

\* fault variant: a failing row also empties the set of seen hashes
OnRowError_ForgetsSeen(acc) ==
    [acc EXCEPT !.invalid_entries = @ + 1, !.seen_hashes = {}]

\* lines 85-87: the except clause
OnRowError(acc) == [acc EXCEPT !.invalid_entries = @ + 1]

\* the body of the for loop, lines 65-87
ValidateRow(acc, row, truth_cols, lie_col) ==
    LET c == create_statements_list(row, truth_cols, lie_col) IN
    IF c.raised THEN OnRowError(acc)
    ELSE LET statement_hash == Sha256Hex(JsonDumpsList(c.statements)) IN
         IF statement_hash \in acc.seen_hashes THEN OnDuplicate(acc)
         ELSE OnFirst(acc, c.statements, statement_hash, row)

RECURSIVE ValidateLoop(_, _, _, _, _)
\* for row in self.data
ValidateLoop(rows, i, acc, truth_cols, lie_col) ==
    IF i > Len(rows) THEN acc
    ELSE ValidateLoop(rows, i + 1, ValidateRow(acc, rows[i], truth_cols, lie_col),
                      truth_cols, lie_col)

\* the counters live on the object and are not reset by validate_entries;
\* seen_hashes and valid_data are locals of the call (lines 61-62)
ValidateAll(rows, truth_cols, lie_col, dups, invalid) ==
    ValidateLoop(rows, 1,
                 [seen_hashes |-> {}, valid_data |-> <<>>,
                  duplicates |-> dups, invalid_entries |-> invalid],
                 truth_cols, lie_col)

\* ---------------------------------------------------------------- json.dump
RECURSIVE IntChars(_)
\* str(n) for n >= 0
IntChars(n) ==
    LET digits == <<"0","1","2","3","4","5","6","7","8","9">> IN
    IF n < 10 THEN <<digits[n + 1]>> ELSE IntChars(n \div 10) \o <<digits[(n % 10) + 1]>>

\* json coerces the keys of an object to strings
JsonKey(k) ==
    IF k.t = "None" THEN PyStr(<<"n","u","l","l">>)
    ELSE IF k.t = "int" THEN PyStr(IntChars(k.v))
    ELSE k

RECURSIVE JsonValue(_)
\* the JSON document json.dumps writes for a value: the same tree, object keys
\* coerced to strings (the text layout is not modelled for the artifacts)
JsonValue(x) ==
    IF x.t = "dict"
    THEN PyDict([i \in 1..Len(x.v) |-> [k |-> JsonKey(x.v[i].k), v |-> JsonValue(x.v[i].v)]])
    ELSE IF x.t = "list"
    THEN PyList([i \in 1..Len(x.v) |-> JsonValue(x.v[i])])
    ELSE x

\* ---------------------------------------------------------------- artifacts
input_file  == <<"l","i","e","s",".","c","s","v">>
jsonl_path  == <<"o","p","t","i","m","i","z","e","d","_","d","a","t","a",".","j","s","o","n","l">>
zip_path    == <<"d","a","t","a",".","z","i","p">>
index_path  == <<"d","a","t","a","_","i","n","d","e","x",".","j","s","o","n">>
report_path == <<"v","a","l","i","d","a","t","i","o","n","_","r","e","p","o","r","t",".","j","s","o","n">>
FileNames   == {jsonl_path, zip_path, index_path, report_path}

Absent         == [exists |-> FALSE, content |-> <<>>]
Written(parts) == [exists |-> TRUE, content |-> parts]

\* fault variant: the log stops one record short
JsonlLines_Truncated(data) ==
    [i \in 1..(Len(data) - 1) |-> JsonValue(PyDict(data[i]))]

\* lines 99-101: one json.dumps(entry) per line, in the order of self.data
JsonlLines(data) == [i \in 1..Len(data) |-> JsonValue(PyDict(data[i]))]

\* lines 103-104: an archive with one member, the log as it is on disk
ZipOf(fs) == << [arcname |-> jsonl_path, bytes |-> fs[jsonl_path].content] >>

K_hash == PyStr(<<"h","a","s","h">>)

\* the projection stored per id, lines 114-118
IndexEntry(entry) ==
    << [k |-> K_statements,   v |-> Item(entry, K_statements)],
       [k |-> K_lie_position, v |-> Item(entry, K_lie_position)],
       [k |-> K_hash,         v |-> Item(entry, K_entry_hash)] >>

\* an entry subscripted with a key it does not have raises KeyError
IndexableEntry(entry) ==
    /\ HasKey(entry, K_statements) /\ HasKey(entry, K_lie_position)
    /\ HasKey(entry, K_entry_hash) /\ HasKey(entry, K_id)

RECURSIVE IndexLoop(_, _, _)
\* lines 112-118
IndexLoop(data, i, index) ==
    IF i > Len(data) THEN [raised |-> FALSE, index |-> index]
    ELSE IF ~IndexableEntry(data[i]) THEN [raised |-> TRUE, index |-> index]
    ELSE IndexLoop(data, i + 1,
                   DictSet(index, Item(data[i], K_id), PyDict(IndexEntry(data[i]))))

K_original_file      == PyStr(<<"o","r","i","g","i","n","a","l","_","f","i","l","e">>)
K_processed_entries  == PyStr(<<"p","r","o","c","e","s","s","e","d","_","e","n","t","r","i","e","s">>)
K_duplicates_removed == PyStr(<<"d","u","p","l","i","c","a","t","e","s","_","r","e","m","o","v","e","d">>)
K_invalid_entries    == PyStr(<<"i","n","v","a","l","i","d","_","e","n","t","r","i","e","s">>)
K_output_files       == PyStr(<<"o","u","t","p","u","t","_","f","i","l","e","s">>)

\* the list literal of lines 141-146
OutputFileNames == <<jsonl_path, zip_path, index_path, report_path>>

\* the dict built at lines 128-134 (no names) and 136-147 (the four names)
ReportDict(data, dups, invalid, names) ==
    << [k |-> K_original_file,      v |-> PyStr(input_file)],
       [k |-> K_processed_entries,  v |-> PyInt(Len(data))],
       [k |-> K_duplicates_removed, v |-> PyInt(dups)],
       [k |-> K_invalid_entries,    v |-> PyInt(invalid)],
       [k |-> K_output_files,       v |-> PyList([i \in 1..Len(names) |-> PyStr(names[i])])] >>

\* ------------------------------------------------------------------- state
VARIABLES
    csv_file,         \* the file at input_file: [exists, header, lines]
    pc,               \* position of the script (lines 155-174), "caller" for a free caller
    obj,              \* "none" | "alive" | "failed": the CSVOptimizer object
    write_files,      \* self.write_files
    data,             \* self.data
    truth_cols,       \* self.truth_cols
    lie_col,          \* self.lie_col
    duplicates,       \* self.duplicates
    invalid_entries,  \* self.invalid_entries
    exc,              \* the exception raised by the last call, NoExc if none
    runs,             \* completed invocations of validate_entries
    files,            \* the working directory: file name -> Absent or Written(..)
    report            \* the value last returned by generate_report, PyNone before

vars == <<csv_file, pc, obj, write_files, data, truth_cols, lie_col, duplicates,
          invalid_entries, exc, runs, files, report>>

\* ------------------------------------------------------------------ inputs
n_Truth        == <<"T","r","u","t","h">>
n_Lie          == <<"L","i","e">>
n_BELIEF       == <<" ","B","E","L","I","E","F"," ">>
n_TruthOrLie   == <<"T","r","u","t","h"," ","o","r"," ","l","i","e">>
n_Answer       == <<"A","n","s","w","e","r">>
n_lie_position == <<"l","i","e","_","p","o","s","i","t","i","o","n">>

SchemaNames == {n_Truth, n_Lie, n_BELIEF, n_TruthOrLie, n_Answer}

\* headers of two or three distinct names
SchemaHeaders ==
    {h \in [1..2 -> SchemaNames] \cup [1..3 -> SchemaNames] :
        \A i, j \in 1..Len(h) : i # j => h[i] # h[j]}

StdHeader == <<n_Truth, n_Lie>>
ApiHeaders == {StdHeader, <<n_Truth, n_lie_position>>}

Cells       == {<<"a">>, <<" ", "a">>, <<>>}
ApiCells    == {<<" ", "a">>, <<>>}
RaggedCells == {<<"a">>}

\* the non-blank lines a file with header h can hold: as many cells as the
\* header has names, or one cell fewer, or one cell more
RowsFor(h, cells) ==
    [1..Len(h) -> cells] \cup [1..(Len(h) - 1) -> RaggedCells]
                        \cup [1..(Len(h) + 1) -> RaggedCells]

LinesFor(h, cells, max) == UNION {[1..k -> RowsFor(h, cells)] : k \in 0..max}

FilesWith(h, cells, max) ==
    {[exists |-> TRUE, header |-> h, lines |-> ls] : ls \in LinesFor(h, cells, max)}

NoFile == [exists |-> FALSE, header |-> <<>>, lines |-> <<>>]

\* what the script may find at lies.csv: the usual header over varied rows, and
\* every header over rows whose cells do not matter to schema detection
MainInputs ==
    {NoFile} \cup FilesWith(StdHeader, Cells, MaxRows)
             \cup UNION {FilesWith(h, RaggedCells, MaxSchemaRows) : h \in SchemaHeaders}

ApiInputs == {NoFile} \cup UNION {FilesWith(h, ApiCells, MaxApiRows) : h \in ApiHeaders}

\* no object yet; the working directory holds none of the four artifacts
InitObject ==
    /\ obj = "none"
    /\ write_files = TRUE
    /\ data = <<>>
    /\ truth_cols = <<>>
    /\ lie_col = PyNone
    /\ duplicates = 0
    /\ invalid_entries = 0
    /\ exc = NoExc
    /\ runs = 0
    /\ files = [f \in FileNames |-> Absent]
    /\ report = PyNone

\* the script is started on some lies.csv
InitMain == csv_file \in MainInputs /\ pc = "line159" /\ InitObject

\* a caller that holds the class and calls its methods in any order
Init == csv_file \in ApiInputs /\ pc = "caller" /\ InitObject

\* -------------------------------------------------------------- operations
\* CSVOptimizer.__init__
Construct(wf) ==
    /\ obj = "none"
    /\ write_files' = wf
    /\ LET l == load_csv(csv_file) IN
       IF l.exc # NoExc
       THEN /\ exc' = l.exc
            /\ obj' = "failed"
            /\ UNCHANGED <<data, duplicates, invalid_entries, truth_cols, lie_col>>
       ELSE LET r == identify_columns(l.data) IN
            /\ data' = l.data
            /\ duplicates' = 0
            /\ invalid_entries' = 0
            /\ truth_cols' = r.truth_cols
            /\ lie_col' = r.lie_col
            /\ exc' = r.exc
            /\ obj' = IF r.exc = NoExc THEN "alive" ELSE "failed"
    /\ UNCHANGED <<csv_file, runs, files, report>>

\* CSVOptimizer.validate_entries
validate_entries ==
    /\ obj = "alive"
    /\ runs < MaxRuns
    /\ LET acc == ValidateAll(data, truth_cols, lie_col, duplicates, invalid_entries) IN
       /\ data' = acc.valid_data
       /\ duplicates' = acc.duplicates
       /\ invalid_entries' = acc.invalid_entries
    /\ runs' = runs + 1
    /\ exc' = NoExc
    /\ UNCHANGED <<csv_file, obj, write_files, truth_cols, lie_col, files, report>>

\* fault variant: the write_files flag is not consulted
optimize_storage_Unguarded ==
    /\ obj = "alive"
    /\ LET withLog == [files EXCEPT ![jsonl_path] = Written(JsonlLines(data))] IN
       files' = [withLog EXCEPT ![zip_path] = Written(ZipOf(withLog))]
    /\ exc' = NoExc
    /\ UNCHANGED <<csv_file, obj, write_files, data, truth_cols, lie_col, duplicates,
                   invalid_entries, runs, report>>

\* CSVOptimizer.optimize_storage
optimize_storage ==
    /\ obj = "alive"
    /\ IF ~write_files THEN UNCHANGED files
       ELSE LET withLog == [files EXCEPT ![jsonl_path] = Written(JsonlLines(data))] IN
            files' = [withLog EXCEPT ![zip_path] = Written(ZipOf(withLog))]
    /\ exc' = NoExc
    /\ UNCHANGED <<csv_file, obj, write_files, data, truth_cols, lie_col, duplicates,
                   invalid_entries, runs, report>>

\* CSVOptimizer.create_index
create_index ==
    /\ obj = "alive"
    /\ IF ~write_files THEN exc' = NoExc /\ UNCHANGED files
       ELSE LET r == IndexLoop(data, 1, <<>>) IN
            IF r.raised THEN exc' = Raised("KeyError") /\ UNCHANGED files
            ELSE /\ exc' = NoExc
                 /\ files' = [files EXCEPT
                                ![index_path] = Written(<<JsonValue(PyDict(r.index))>>)]
    /\ UNCHANGED <<csv_file, obj, write_files, data, truth_cols, lie_col, duplicates,
                   invalid_entries, runs, report>>

\* CSVOptimizer.generate_report
generate_report ==
    /\ obj = "alive"
    /\ IF ~write_files
       THEN /\ report' = PyDict(ReportDict(data, duplicates, invalid_entries, <<>>))
            /\ UNCHANGED files
       ELSE LET r == PyDict(ReportDict(data, duplicates, invalid_entries, OutputFileNames)) IN
            /\ report' = r
            /\ files' = [files EXCEPT ![report_path] = Written(<<JsonValue(r)>>)]
    /\ exc' = NoExc
    /\ UNCHANGED <<csv_file, obj, write_files, data, truth_cols, lie_col, duplicates,
                   invalid_entries, runs>>

\* ------------------------------------------------- a caller, any call order
ApiConstruct       == pc = "caller" /\ (\E wf \in BOOLEAN : Construct(wf)) /\ UNCHANGED pc
ApiValidateEntries == pc = "caller" /\ validate_entries /\ UNCHANGED pc
ApiOptimizeStorage == pc = "caller" /\ optimize_storage /\ UNCHANGED pc
ApiCreateIndex     == pc = "caller" /\ create_index /\ UNCHANGED pc
ApiGenerateReport  == pc = "caller" /\ generate_report /\ UNCHANGED pc

Next ==
    \/ ApiConstruct
    \/ ApiValidateEntries
    \/ ApiOptimizeStorage
    \/ ApiCreateIndex
    \/ ApiGenerateReport

Spec == Init /\ [][Next]_vars

\* ------------------------------------------------- the script, lines 155-174
\* an exception in the try block is printed and the process exits with status 1
After(next) == IF exc' = NoExc THEN next ELSE "exit1"

Main159 == pc = "line159" /\ Construct(TRUE)  /\ pc' = After("line162")
Main162 == pc = "line162" /\ validate_entries /\ pc' = After("line163")
Main163 == pc = "line163" /\ optimize_storage /\ pc' = After("line164")
Main164 == pc = "line164" /\ create_index     /\ pc' = After("line166")
Main166 == pc = "line166" /\ generate_report  /\ pc' = After("done")

NextMain == Main159 \/ Main162 \/ Main163 \/ Main164 \/ Main166

SpecMain == InitMain /\ [][NextMain]_vars

\* ------------------------------------------------ vocabulary of the claims
\* the rows the constructor loaded
Loaded == load_csv(csv_file).data

\* a field name as the schema detector reads it
Norm(name) == Lower(Strip(name))
HasTruth(name) == Contains(Norm(name), s_truth)
HasLie(name)   == Contains(Norm(name), s_lie)

\* canonicalisation of each of the rows under the detected schema
Canons(rows) ==
    [j \in 1..Len(rows) |-> create_statements_list(rows[j], truth_cols, lie_col)]

\* given the canonicalisations c: row j has the statement vector of an earlier row
IsLaterDuplicate(c, j) ==
    /\ ~c[j].raised
    /\ \E i \in 1..(j - 1) : ~c[i].raised /\ c[i].statements = c[j].statements

LaterDuplicates(c) == {j \in 1..Len(c) : IsLaterDuplicate(c, j)}

\* indices of the rows that canonicalise and repeat no earlier row, ascending
FirstOccurrences(c) ==
    LET IsFirst(j) == ~c[j].raised /\ ~IsLaterDuplicate(c, j)
    IN  SelectSeq([j \in 1..Len(c) |-> j], IsFirst)

AfterFirstPass == obj = "alive" /\ runs = 1

C2_FirstOccurrenceOrder ==
    AfterFirstPass =>
        LET loaded == Loaded
            c == Canons(loaded)
            first == FirstOccurrences(c)
        IN  /\ Len(data) = Len(first)
            /\ \A p \in 1..Len(data) :
                  /\ Item(data[p], K_id) = PyInt(p)
                  /\ Item(data[p], K_original_columns) = PyDict(loaded[first[p]])
                  /\ Item(data[p], K_statements) = PyList(c[first[p]].statements)

W_C2 ==
    /\ AfterFirstPass
    /\ Len(csv_file.lines) = 3 /\ Len(data) = 2
    /\ csv_file.lines[1] # csv_file.lines[2]
    /\ LET loaded == Loaded
           c == Canons(loaded)
       IN  /\ IsLaterDuplicate(c, 2) /\ ~IsLaterDuplicate(c, 3)
           /\ Item(data[2], K_original_columns) = PyDict(loaded[3])

\* C3 as stated: the first field name containing "lie" is the lie field, later
\* ones are ignored, and the names containing "truth" are the truth fields in
\* header order.
C3_FirstLieWins ==
    obj = "alive" =>
        LET h == csv_file.header
            lies == SelectSeq(h, HasLie)
        IN  /\ lies # <<>>
            /\ lie_col = PyStr(lies[1])
            /\ truth_cols = [i \in 1..Len(SelectSeq(h, HasTruth)) |->
                                PyStr(SelectSeq(h, HasTruth)[i])]

\* C3 amended: the last field name that contains "lie" and does not contain
\* "truth" is the lie field (each later match overwrites the earlier one, a
\* name containing both words is a truth field only), and the names containing
\* "truth" are the truth fields in header order.
C3_LastLieWins ==
    (obj # "none" /\ csv_file.exists /\ csv_file.lines # <<>>) =>
        LET h == csv_file.header
            OnlyLie(name) == HasLie(name) /\ ~HasTruth(name)
            lies == SelectSeq(h, OnlyLie)
        IN  /\ obj = "alive" => lies # <<>>
            /\ lie_col = IF lies = <<>> THEN PyNone ELSE PyStr(lies[Len(lies)])
            /\ truth_cols = [i \in 1..Len(SelectSeq(h, HasTruth)) |->
                                PyStr(SelectSeq(h, HasTruth)[i])]

W_C3 ==
    /\ obj = "alive"
    /\ Len(csv_file.header) = 3
    /\ HasLie(csv_file.header[1]) /\ ~HasTruth(csv_file.header[1])
    /\ HasLie(csv_file.header[2]) /\ ~HasTruth(csv_file.header[2])
    /\ lie_col = PyStr(csv_file.header[2])

\* C4: canonicalisation never fails: every loaded row, also one with no value
\* for a schema field (a line shorter than the header), has a statement vector
\* of length truth fields + 1 with the empty string where the value is missing,
\* and is not counted as invalid.
C4_CanonicalizationNeverFails ==
    AfterFirstPass =>
        /\ invalid_entries = 0
        /\ \A j \in 1..Len(Loaded) :
              LET c == create_statements_list(Loaded[j], truth_cols, lie_col) IN
              /\ ~c.raised
              /\ Len(c.statements) = Len(truth_cols) + 1
              /\ Get(Loaded[j], lie_col, PyNone) = PyNone =>
                    c.statements[Len(truth_cols) + 1] = PyStr(<<>>)

\* C5: with write_files = False no call creates or modifies a file, and
\* generate_report returns a report with the five fields and output_files = [].
C5_NoWriteMode ==
    (obj = "alive" /\ ~write_files) =>
        /\ \A f \in FileNames : ~files[f].exists
        /\ report.t = "dict" =>
              /\ Keys(report.v) = <<K_original_file, K_processed_entries,
                                    K_duplicates_removed, K_invalid_entries, K_output_files>>
              /\ Item(report.v, K_output_files) = PyList(<<>>)

W_C5 ==
    /\ obj = "alive" /\ ~write_files
    /\ runs >= 1 /\ report.t = "dict"
    /\ Item(report.v, K_processed_entries) = PyInt(Len(data))
    /\ Len(data) >= 1

\* C6: every file name in the output_files of a returned report names a file
\* this optimizer has written by the time the report is returned.
C6_ReportListsWrittenFiles ==
    report.t = "dict" =>
        LET names == Item(report.v, K_output_files).v
        IN  \A i \in 1..Len(names) : files[names[i].v].exists

\* C7: if the first record's field names hold no "truth" name or no "lie" name,
\* the constructor raises the schema error listing all field names, no row is
\* canonicalised, validated or numbered and no counter changes.
C7_SchemaErrorIsFatal ==
    LET h == csv_file.header
        Unidentifiable == SelectSeq(h, HasTruth) = <<>> \/ SelectSeq(h, HasLie) = <<>>
    IN  (obj # "none" /\ csv_file.exists /\ csv_file.lines # <<>> /\ Unidentifiable) =>
            /\ obj = "failed"
            /\ exc.type = "KeyError"
            /\ exc.available = Keys(Loaded[1])
            /\ runs = 0 /\ duplicates = 0 /\ invalid_entries = 0
            /\ data = Loaded

\* C8: nothing carries over between invocations of validate_entries: the
\* counters after an invocation count only the rows that invocation dropped,
\* and a repeated invocation leaves the survivors of the first.
C8_NoCarryOver ==
    [][ runs' = runs + 1 =>
          /\ duplicates' + invalid_entries' = Len(data) - Len(data')
          /\ runs >= 1 => data' = data ]_vars

\* C9: a row whose processing raises adds exactly one to invalid_entries,
\* yields no record, uses no id and leaves the seen set and the duplicate
\* counter alone: the pass ends as it would on the rows without the failing
\* ones, plus one invalid entry per failing row.
C9_RowErrorIsLocal ==
    AfterFirstPass =>
        LET loaded == Loaded
            Good(row) == ~create_statements_list(row, truth_cols, lie_col).raised
            good == SelectSeq(loaded, Good)
            ref  == ValidateAll(good, truth_cols, lie_col, 0, 0)
        IN  /\ invalid_entries = Len(loaded) - Len(good)
            /\ ref.invalid_entries = 0
            /\ data = ref.valid_data
            /\ duplicates = ref.duplicates

W_C9 ==
    /\ AfterFirstPass
    /\ Len(csv_file.lines) = 3
    /\ invalid_entries = 1 /\ duplicates = 1 /\ Len(data) = 1
    /\ LET c == Canons(Loaded) IN ~c[1].raised /\ c[2].raised /\ IsLaterDuplicate(c, 3)

\* C10: in a run of the script, once the archive or the index is written the
\* record log is written in full, one line per surviving record in ascending
\* id order; the archive holds that log and the index has exactly the ids of
\* the log with the same statements, lie_position and fingerprint per id.
C10_LogBeforeArchiveAndIndex ==
    (files[zip_path].exists \/ files[index_path].exists) =>
        LET log == files[jsonl_path].content IN
        /\ files[jsonl_path].exists
        /\ Len(log) = Len(data)
        /\ \A p \in 1..Len(log) :
              /\ log[p] = JsonValue(PyDict(data[p]))
              /\ Item(log[p].v, K_id) = PyInt(p)
        /\ files[zip_path].exists =>
              files[zip_path].content = << [arcname |-> jsonl_path, bytes |-> log] >>
        /\ files[index_path].exists =>
              LET index == files[index_path].content[1].v IN
              /\ Len(index) = Len(log)
              /\ \A p \in 1..Len(log) :
                    LET id == PyStr(IntChars(Item(log[p].v, K_id).v)) IN
                    /\ HasKey(index, id)
                    /\ Item(Item(index, id).v, K_statements) = Item(log[p].v, K_statements)
                    /\ Item(Item(index, id).v, K_lie_position) = Item(log[p].v, K_lie_position)
                    /\ Item(Item(index, id).v, K_hash) = Item(log[p].v, K_entry_hash)

W_C10 ==
    /\ pc = "done"
    /\ files[zip_path].exists /\ files[index_path].exists
    /\ Len(files[jsonl_path].content) >= 2
    /\ duplicates >= 1

====
